---- MODULE Spec2Model ----
(***************************************************************************)
(* Group-assignment engines of humble-split-generator.                     *)
(*                                                                         *)
(*   simple engine  : src/simple_splitter.py, SimpleRaidSplitter           *)
(*   complex engine : src/raid_splitter.py,   RaidSplitter                 *)
(*                                                                         *)
(* A character is identified by its position in all_characters (names are  *)
(* unique, so Python's field-wise equality of the dataclasses coincides    *)
(* with identity of the roster entry).  A group's lists hold positions.    *)
(* random.shuffle and the random sort key are nondeterministic choices.    *)
(***************************************************************************)
EXTENDS Integers, Sequences, FiniteSets, TLC

VARIABLES
    engine,             \* "simple" | "complex": which splitter runs
    all_characters,     \* the loaded roster, a sequence of character records
    num_groups,         \* argument num_groups
    group_size,         \* argument group_size
    healers_per_group,  \* argument healers_per_group (complex engine)
    groups,             \* the list of SimpleGroup / RaidGroup objects
    pc,                 \* position in create_groups / create_optimal_groups
    \* ---- locals of the simple engine
    lock_idx,           \* position in locked_chars (_apply_locked_assignments)
    tier_idx,           \* which _distribute_priority_group call runs (1..4)
    chars_by_role,      \* chars_by_role of the running _distribute_priority_group
    role_idx,           \* position in role_priority
    shuffled_pending,   \* entries of shuffled_characters not yet iterated
    available_groups,   \* available_groups of _distribute_role_round_robin
    group_index,        \* group_index (0-based, as in the code)
    char,               \* the loop variable char (0: none)
    attempts,           \* attempts
    assigned,           \* assigned
    \* ---- locals of the complex engine
    queue,              \* the sorted tank_chars / healer_chars / candidates list
    qi,                 \* position in queue (0-based): i / healer_index
    used_role,          \* used_tanks + used_healers
    used_chars,         \* used_chars of ensure_buff_coverage / fill_remaining_slots
    remaining_chars,    \* remaining_chars
    available_chars,    \* available_chars of fill_remaining_slots
    gi,                 \* index of the group a per-group loop is at (1-based)
    slot,               \* the inner range() counter of distribute_healers
    missing_buffs,      \* entries of missing_buffs not yet iterated
    added_to_this_group,\* added_to_this_group of fill_remaining_slots
    slots_needed,       \* slots_needed of fill_remaining_slots
    iteration,          \* iteration of optimize_armor_and_tier_distribution
    improved,           \* improved
    pair,               \* <<i, j>>: the group pair being tried (1-based)
    mains1,             \* mains1 of _try_armor_and_tier_swap_mains_only
    mains2,             \* mains2
    m1,                 \* position in mains1 (1-based)
    m2,                 \* position in mains2 (1-based)
    \* ---- observation (history) variables, read by no action guard
    lock_ok,            \* locked characters whose lock was satisfiable when processed
    lock_seen,          \* locked characters _apply_locked_assignments has processed
    sizes_before,       \* member counts when the optimizer was entered
    returned,           \* TRUE once the engine returned its groups normally
    \* ---- what the run emits and does, as an observer sees it; read by no action guard
    reported,           \* characters named in a could-not-lock / could-not-assign warning
    attempted,          \* characters the automatic distribution called add_character for
    offers,             \* the groups add_character was called on for char, in order
    last_offer,         \* the group of the latest such call in this bucket (0: none yet)
    groups_before,      \* the groups as the optimizer found them
    dicts,              \* the return values of the groups_to_dict calls made so far
    \* ---- what the complex engine's passes do, as an observer sees it; read by no action guard
    swap_before,        \* the groups when the swap under way began (<<>>: none yet)
    iter_swaps,         \* the group pairs whose swap completed in the running iteration
    scan_missing        \* missing_buffs as computed for the group under scan

svars == <<lock_idx, tier_idx, chars_by_role, role_idx, shuffled_pending,
           available_groups, group_index, char, attempts, assigned>>
rvars == <<queue, qi, used_role, gi, slot>>
bvars == <<used_chars, remaining_chars, available_chars, missing_buffs,
           added_to_this_group, slots_needed>>
ovars == <<iteration, improved, pair, mains1, mains2, m1, m2>>
cvars == <<rvars, bvars, ovars>>
hvars == <<lock_ok, lock_seen, sizes_before, returned>>
tvars == <<reported, attempted, offers, last_offer, groups_before, dicts>>
uvars == <<swap_before, iter_swaps, scan_missing>>
params == <<engine, all_characters, num_groups, group_size, healers_per_group>>
vars == <<params, groups, pc, svars, cvars, hvars, tvars, uvars>>

---------------------------------------------------------------------------
(* Bounds of the model *)
MaxChars == 3
MaxPlayers == 2
MaxGroups == 2
MaxGroupSize == 2
MaxHealersPerGroup == 1
MaxLocks == 2
MaxSerializations == 2

\* for iteration in range(10)
MaxOptimizationIterations == 10

---------------------------------------------------------------------------
(* Static tables: the classes and specs the database is seeded with *)

\* the specs a modelled roster draws from, with their class.  unlisted_spec is a
\* row of the specs collection that the seed does not hold: its role_raid is none
\* of tank, healer, mdps, rdps (the engines read whatever the row says).
\* arcanist_spec is a row of a class, arcanist, that the seed does not hold either:
\* the class row lists two of the required buffs in raid_buff_ids
SpecClass ==
    [ warrior_protection |-> "warrior",
      druid_guardian     |-> "druid",
      druid_restoration  |-> "druid",
      shaman_elemental   |-> "shaman",
      rogue_outlaw       |-> "rogue",
      unlisted_spec      |-> "evoker",
      arcanist_spec      |-> "arcanist" ]

spec_role_raid ==
    [ warrior_protection |-> "tank",
      druid_guardian     |-> "tank",
      druid_restoration  |-> "healer",
      shaman_elemental   |-> "rdps",
      rogue_outlaw       |-> "mdps",
      unlisted_spec      |-> "support",
      arcanist_spec      |-> "rdps" ]

class_armor_type ==
    [ warrior |-> "plate", druid |-> "leather", shaman |-> "mail", rogue |-> "leather",
      evoker |-> "mail", arcanist |-> "cloth" ]

class_tier_token ==
    [ warrior |-> "Dreadful", druid |-> "Venerated", shaman |-> "Zenith", rogue |-> "Venerated",
      evoker |-> "Zenith", arcanist |-> "Mystic" ]

class_raid_buff_ids ==
    [ warrior |-> {"battle_shout"},
      druid   |-> {"mark_of_the_wild"},
      shaman  |-> {"windfury_totem", "skyfury"},
      rogue   |-> {"atrophic_poison"},
      evoker  |-> {"blessing_of_the_bronze"},
      arcanist |-> {"arcane_intellect", "power_word_fortitude"} ]

required_buffs ==
    { "arcane_intellect", "battle_shout", "mark_of_the_wild",
      "power_word_fortitude", "mystic_touch", "chaos_brand",
      "hunters_mark", "atrophic_poison", "skyfury" }

role_priority == <<"tank", "healer", "rdps", "mdps">>
\* variant: helpers are distributed before mains
group_priority_HelpersFirst == <<"helper", "main", "alt", "inactive">>

\* self.group_priority
group_priority == <<"main", "alt", "helper", "inactive">>

\* priority_order.get(c.role_group, 0)
priority_order(rg) ==
    CASE rg = "main" -> 3
      [] rg = "alt" -> 2
      [] rg = "helper" -> 1
      [] OTHER -> 0

---------------------------------------------------------------------------
(* Character attributes, by position in all_characters *)

CharIds == 1..Len(all_characters)
player_id(c) == all_characters[c].player_id
role_group(c) == all_characters[c].role_group
is_locked(c) == all_characters[c].is_locked
locked_to_group(c) == all_characters[c].locked_to_group
role_raid(c) == spec_role_raid[all_characters[c].spec_id]
armor_type(c) == class_armor_type[SpecClass[all_characters[c].spec_id]]
tier_token(c) == class_tier_token[SpecClass[all_characters[c].spec_id]]
raid_buff_ids(c) == class_raid_buff_ids[SpecClass[all_characters[c].spec_id]]

---------------------------------------------------------------------------
(* Sequence helpers *)

Range(s) == {s[k] : k \in 1..Len(s)}
InSeq(x, s) == \E k \in 1..Len(s) : s[k] = x

\* list.remove(x): drops the first occurrence
RECURSIVE RemoveFirst(_, _)
RemoveFirst(s, x) ==
    IF s = <<>> THEN <<>>
    ELSE IF Head(s) = x THEN Tail(s)
    ELSE <<Head(s)>> \o RemoveFirst(Tail(s), x)

\* [c for c in s if Keep(c)]
RECURSIVE Filter(_, _)
Filter(s, keep) ==
    IF s = <<>> THEN <<>>
    ELSE IF Head(s) \in keep THEN <<Head(s)>> \o Filter(Tail(s), keep)
    ELSE Filter(Tail(s), keep)

\* list.sort(key=priority_order, reverse=True): stable, so roster order within a tier
SortByPriority(s) ==
    Filter(s, {c \in Range(s) : priority_order(role_group(c)) = 3})
    \o Filter(s, {c \in Range(s) : priority_order(role_group(c)) = 2})
    \o Filter(s, {c \in Range(s) : priority_order(role_group(c)) = 1})
    \o Filter(s, {c \in Range(s) : priority_order(role_group(c)) = 0})

AllIds == [k \in CharIds |-> k]

---------------------------------------------------------------------------
(* Group containers *)

EmptyGroup ==
    [characters |-> <<>>, players_used |-> {}, tanks |-> <<>>, healers |-> <<>>, dps |-> <<>>]

\* any(char in group.characters for group in groups)
InAnyGroup(grps, c) == \E g \in 1..Len(grps) : InSeq(c, grps[g].characters)

\* variant: the size limit is not checked
SimpleGroup_can_add_character_NoSizeCheck(grp, group_id, c) ==
    /\ ~(player_id(c) \in grp.players_used)
    /\ ~(is_locked(c) /\ locked_to_group(c) # group_id)

\* variant: a locked character is rejected by every group
SimpleGroup_can_add_character_RejectsLocked(grp, group_id, c) ==
    /\ ~(Len(grp.characters) >= group_size)
    /\ ~(player_id(c) \in grp.players_used)
    /\ ~is_locked(c)

\* variant: the lock target is not checked
SimpleGroup_can_add_character_NoLockCheck(grp, group_id, c) ==
    /\ ~(Len(grp.characters) >= group_size)
    /\ ~(player_id(c) \in grp.players_used)

\* SimpleGroup.can_add_character; group_id is the group's position, max_size is group_size
SimpleGroup_can_add_character(grp, group_id, c) ==
    /\ ~(Len(grp.characters) >= group_size)
    /\ ~(player_id(c) \in grp.players_used)
    /\ ~(is_locked(c) /\ locked_to_group(c) # group_id)

\* variant: the owning player is not recorded
SimpleGroup_add_character_ForgetsPlayer(grp, group_id, c) ==
    IF ~SimpleGroup_can_add_character(grp, group_id, c) THEN grp
    ELSE [grp EXCEPT !.characters = Append(@, c)]

\* SimpleGroup.add_character: the group after the call (unchanged when it returns False)
SimpleGroup_add_character(grp, group_id, c) ==
    IF ~SimpleGroup_can_add_character(grp, group_id, c) THEN grp
    ELSE [grp EXCEPT !.characters = Append(@, c),
                     !.players_used = @ \cup {player_id(c)}]

\* variant: the player check is missing
RaidGroup_can_add_character_Always(grp, c) == c \in CharIds

\* RaidGroup.can_add_character
RaidGroup_can_add_character(grp, c) == player_id(c) \notin grp.players_used

\* RaidGroup.add_character: the group after the call (unchanged when it returns False)
RaidGroup_add_character(grp, c) ==
    IF ~RaidGroup_can_add_character(grp, c) THEN grp
    ELSE LET g1 == [grp EXCEPT !.characters = Append(@, c),
                               !.players_used = @ \cup {player_id(c)}]
         IN  IF role_raid(c) = "tank" THEN [g1 EXCEPT !.tanks = Append(@, c)]
             ELSE IF role_raid(c) = "healer" THEN [g1 EXCEPT !.healers = Append(@, c)]
             ELSE [g1 EXCEPT !.dps = Append(@, c)]

\* variant: the last member is removed, whichever character was named
RaidGroup_remove_character_PopsLast(grp, c) ==
    IF ~InSeq(c, grp.characters) THEN grp
    ELSE LET l  == grp.characters[Len(grp.characters)]
             g1 == [grp EXCEPT !.characters = RemoveFirst(@, l),
                               !.players_used = @ \ {player_id(l)}]
         IN  IF role_raid(l) = "tank" THEN [g1 EXCEPT !.tanks = RemoveFirst(@, l)]
             ELSE IF role_raid(l) = "healer" THEN [g1 EXCEPT !.healers = RemoveFirst(@, l)]
             ELSE [g1 EXCEPT !.dps = RemoveFirst(@, l)]

\* RaidGroup.remove_character: the group after the call (unchanged when it returns False)
RaidGroup_remove_character(grp, c) ==
    IF ~InSeq(c, grp.characters) THEN grp
    ELSE LET g1 == [grp EXCEPT !.characters = RemoveFirst(@, c),
                               !.players_used = @ \ {player_id(c)}]
         IN  IF role_raid(c) = "tank" THEN [g1 EXCEPT !.tanks = RemoveFirst(@, c)]
             ELSE IF role_raid(c) = "healer" THEN [g1 EXCEPT !.healers = RemoveFirst(@, c)]
             ELSE [g1 EXCEPT !.dps = RemoveFirst(@, c)]

(* Tallies over a group's members *)

\* [c for c in group.characters if c.role_group == 'main']
Mains(grp) == Filter(grp.characters, {c \in CharIds : role_group(c) = "main"})

\* RaidGroup.get_armor_distribution(mains_only=True): a dict, keys are the types present
get_armor_distribution_mains(grp) ==
    LET ms == Mains(grp)
    IN  [a \in {armor_type(c) : c \in Range(ms)} |->
            Cardinality({k \in 1..Len(ms) : armor_type(ms[k]) = a})]

\* RaidGroup.get_tier_distribution(mains_only=True)
get_tier_distribution_mains(grp) ==
    LET ms == Mains(grp)
    IN  [t \in {tier_token(c) : c \in Range(ms)} |->
            Cardinality({k \in 1..Len(ms) : tier_token(ms[k]) = t})]

\* dict.get(k, 0) and d[k] = v
DictGet(d, k) == IF k \in DOMAIN d THEN d[k] ELSE 0
DictSet(d, k, v) == [x \in (DOMAIN d) \cup {k} |-> IF x = k THEN v ELSE d[x]]

RECURSIVE SumOver(_, _)
SumOver(d, keys) ==
    IF keys = {} THEN 0
    ELSE LET k == CHOOSE x \in keys : TRUE
         IN  d[k] + SumOver(d, keys \ {k})

---------------------------------------------------------------------------
(* Rosters the modelled runs draw from *)

Unlocked == [is_locked |-> FALSE, locked_to_group |-> 0]

\* a lock names any group id, in range or not (0 also stands for a missing groupId)
LockOptions ==
    {Unlocked} \cup {[is_locked |-> TRUE, locked_to_group |-> t] : t \in 0..(MaxGroups + 1)}

CharRecords(specs, tiers, locks) ==
    { [player_id |-> p, spec_id |-> s, role_group |-> t,
       is_locked |-> l.is_locked, locked_to_group |-> l.locked_to_group] :
          p \in 1..MaxPlayers, s \in specs, t \in tiers, l \in locks }

\* players are interchangeable: the k-th new player is called k
PlayersCanonical(r) ==
    \A k \in 1..Len(r) :
        \/ r[k].player_id = 1
        \/ \E h \in 1..(k - 1) : r[h].player_id >= r[k].player_id - 1

\* character_locks names at most MaxLocks characters of the roster
LocksBounded(r) == Cardinality({k \in 1..Len(r) : r[k].is_locked}) <= MaxLocks

Rosters(recs) ==
    UNION { {r \in [1..n -> recs] : PlayersCanonical(r) /\ LocksBounded(r)} :
               n \in 0..MaxChars }

SimpleSpecs == {"warrior_protection", "druid_restoration"}
SimpleTiers == {"main", "helper"}

---------------------------------------------------------------------------
(* Simple engine: SimpleRaidSplitter.create_groups *)

\* the state when _apply_locked_assignments is about to be called
InitLocals ==
    /\ lock_idx = 1 /\ tier_idx = 1 /\ role_idx = 1
    /\ chars_by_role = [r \in Range(role_priority) |-> <<>>]
    /\ shuffled_pending = {} /\ available_groups = <<>> /\ group_index = 0
    /\ char = 0 /\ attempts = 0 /\ assigned = FALSE
    /\ queue = <<>> /\ qi = 0 /\ used_role = {} /\ used_chars = {}
    /\ remaining_chars = <<>> /\ available_chars = <<>> /\ gi = 1 /\ slot = 0 /\ missing_buffs = {}
    /\ added_to_this_group = 0 /\ slots_needed = 0
    /\ iteration = 0 /\ improved = FALSE /\ pair = <<1, 2>>
    /\ mains1 = <<>> /\ mains2 = <<>> /\ m1 = 1 /\ m2 = 1
    /\ lock_ok = {} /\ lock_seen = {} /\ sizes_before = <<>> /\ returned = FALSE
    /\ reported = {} /\ attempted = {} /\ offers = <<>> /\ last_offer = 0
    /\ groups_before = <<>> /\ dicts = <<>>
    /\ swap_before = <<>> /\ iter_swaps = <<>> /\ scan_missing = {}

InitSimple ==
    /\ engine = "simple"
    /\ all_characters \in Rosters(CharRecords(SimpleSpecs, SimpleTiers, LockOptions))
    /\ num_groups \in 1..MaxGroups
    /\ group_size \in 1..MaxGroupSize
    /\ healers_per_group = 0
    /\ groups = [g \in 1..num_groups |-> EmptyGroup]
    /\ pc = "apply_locks"
    /\ InitLocals

\* locked_chars = [char for char in all_characters if char.is_locked]
locked_chars == Filter(AllIds, {c \in CharIds : is_locked(c)})

\* one iteration of the loop of _apply_locked_assignments
ApplyLockedAssignment ==
    /\ engine = "simple" /\ pc = "apply_locks"
    /\ lock_idx <= Len(locked_chars)
    /\ LET c == locked_chars[lock_idx]
           t == locked_to_group(c)
       IN  /\ groups' = IF t # 0 /\ 1 <= t /\ t <= Len(groups)
                        THEN [groups EXCEPT ![t] = SimpleGroup_add_character(@, t, c)]
                        ELSE groups
           /\ lock_seen' = lock_seen \cup {c}
           /\ lock_ok' = IF /\ 1 <= t /\ t <= num_groups
                            /\ Len(groups[t].characters) < group_size
                            /\ \A d \in Range(groups[t].characters) : player_id(d) # player_id(c)
                         THEN lock_ok \cup {c} ELSE lock_ok
           \* logger.warning("Could not lock ..."): the add was made and returned False
           /\ reported' = IF /\ t # 0 /\ 1 <= t /\ t <= Len(groups)
                              /\ ~SimpleGroup_can_add_character(groups[t], t, c)
                           THEN reported \cup {c} ELSE reported
    /\ lock_idx' = lock_idx + 1
    /\ UNCHANGED <<attempted, offers, last_offer, groups_before, dicts>>
    /\ UNCHANGED <<params, uvars, pc, tier_idx, chars_by_role, role_idx, shuffled_pending,
                   available_groups, group_index, char, attempts, assigned,
                   cvars, sizes_before, returned>>

\* _apply_locked_assignments returns (also at once, when nothing is locked)
LockedAssignmentsDone ==
    /\ engine = "simple" /\ pc = "apply_locks"
    /\ lock_idx > Len(locked_chars)
    /\ pc' = "priority_group"
    /\ tier_idx' = 1
    /\ UNCHANGED <<params, tvars, uvars, groups, lock_idx, chars_by_role, role_idx, shuffled_pending,
                   available_groups, group_index, char, attempts, assigned,
                   cvars, hvars>>

\* the first role at or after position r whose bucket is not empty (5: none)
NextRole(cbr, r) ==
    IF \E k \in r..Len(role_priority) : cbr[role_priority[k]] # <<>>
    THEN CHOOSE k \in r..Len(role_priority) :
            /\ cbr[role_priority[k]] # <<>>
            /\ \A h \in r..(k - 1) : cbr[role_priority[h]] = <<>>
    ELSE Len(role_priority) + 1

\* _distribute_priority_group(groups, characters_by_priority.get(tier, [])) up to
\* the first non-empty role bucket
DistributePriorityGroup ==
    /\ engine = "simple" /\ pc = "priority_group"
    /\ tier_idx <= Len(group_priority)
    /\ LET cbr == [r \in Range(role_priority) |->
                     Filter(AllIds, {c \in CharIds :
                                        /\ role_group(c) = group_priority[tier_idx]
                                        /\ ~InAnyGroup(groups, c)
                                        /\ role_raid(c) = r})]
           nr == NextRole(cbr, 1)
       IN  IF nr <= Len(role_priority)
           THEN /\ chars_by_role' = cbr
                /\ role_idx' = nr
                /\ pc' = "round_robin"
                /\ UNCHANGED tier_idx
           ELSE /\ tier_idx' = tier_idx + 1
                /\ UNCHANGED <<chars_by_role, role_idx, pc>>
    /\ UNCHANGED <<params, tvars, uvars, groups, lock_idx, shuffled_pending, available_groups,
                   group_index, char, attempts, assigned, cvars, hvars>>

\* variant: the groups are taken in any order
SortedBySize_Unsorted(grps) == Permutations(1..Len(grps))

\* sorted(groups, key=lambda g: (len(g.characters), random.random()))
SortedBySize(grps) ==
    { o \in Permutations(1..Len(grps)) :
        \A a, b \in 1..Len(grps) :
            a < b => Len(grps[o[a]].characters) <= Len(grps[o[b]].characters) }

\* _distribute_role_round_robin up to its for loop: the shuffle is drawn entry by
\* entry in NextCharacter, the group order here
DistributeRoleRoundRobin ==
    /\ engine = "simple" /\ pc = "round_robin"
    /\ shuffled_pending' = Range(chars_by_role[role_priority[role_idx]])
    /\ available_groups' \in SortedBySize(groups)
    /\ group_index' = 0
    /\ pc' = "next_char"
    /\ offers' = <<>> /\ last_offer' = 0
    /\ UNCHANGED <<reported, attempted, groups_before, dicts>>
    /\ UNCHANGED <<params, uvars, groups, lock_idx, tier_idx, chars_by_role, role_idx,
                   char, attempts, assigned, cvars, hvars>>

\* for char in shuffled_characters: the next entry of the shuffle
NextCharacter ==
    /\ engine = "simple" /\ pc = "next_char"
    /\ \E c \in shuffled_pending :
        /\ shuffled_pending' = shuffled_pending \ {c}
        /\ IF InAnyGroup(groups, c)
           THEN UNCHANGED <<pc, char, attempts, assigned, offers>>
           ELSE /\ char' = c /\ attempts' = 0 /\ assigned' = FALSE
                /\ offers' = <<>>
                /\ pc' = "try_group"
    /\ UNCHANGED <<reported, attempted, last_offer, groups_before, dicts>>
    /\ UNCHANGED <<params, uvars, groups, lock_idx, tier_idx, chars_by_role, role_idx,
                   available_groups, group_index, cvars, hvars>>

\* variant: the increment is missing
next_attempts_NoIncrement(att) == att

\* attempts += 1
next_attempts(att) == att + 1

\* variant: only the first group is tried
while_continues_OneAttempt(att, asg) == att < 1 /\ ~asg

\* variant: the loop goes on after a successful add
while_continues_IgnoresAssigned(att, asg) == att < Len(available_groups)

\* while attempts < len(available_groups) and not assigned
while_continues(att, asg) == att < Len(available_groups) /\ ~asg

\* one iteration of the while loop; the loop condition decides where control goes
TryGroup ==
    /\ engine = "simple" /\ pc = "try_group"
    /\ while_continues(attempts, assigned)
    /\ LET g == available_groups[group_index + 1]
           ok == SimpleGroup_can_add_character(groups[g], g, char)
       IN  /\ groups' = [groups EXCEPT ![g] = SimpleGroup_add_character(@, g, char)]
           /\ assigned' = ok
           /\ group_index' = (group_index + 1) % Len(available_groups)
           /\ attempts' = next_attempts(attempts)
           /\ pc' = IF while_continues(next_attempts(attempts), ok)
                    THEN "try_group" ELSE "next_char"
           /\ attempted' = attempted \cup {char}
           \* (the observer keeps num_groups + 1 entries: one more than a
           \* character is ever offered)
           /\ offers' = IF Len(offers) > Len(groups) THEN offers ELSE Append(offers, g)
           /\ last_offer' = g
           \* if not assigned: logger.warning("Could not assign ...")
           /\ reported' = IF ~while_continues(next_attempts(attempts), ok) /\ ~ok
                           THEN reported \cup {char} ELSE reported
    /\ UNCHANGED <<groups_before, dicts>>
    /\ UNCHANGED <<params, uvars, lock_idx, tier_idx, chars_by_role, role_idx,
                   shuffled_pending, available_groups, char, cvars, hvars>>

\* the for loop is exhausted: on to the next non-empty role, or the next tier
RoleDone ==
    /\ engine = "simple" /\ pc = "next_char"
    /\ shuffled_pending = {}
    /\ LET nr == NextRole(chars_by_role, role_idx + 1)
       IN  IF nr <= Len(role_priority)
           THEN /\ role_idx' = nr /\ pc' = "round_robin" /\ UNCHANGED tier_idx
           ELSE /\ tier_idx' = tier_idx + 1 /\ pc' = "priority_group"
                /\ UNCHANGED role_idx
    /\ char' = 0 /\ attempts' = 0 /\ assigned' = FALSE
    /\ available_groups' = <<>> /\ group_index' = 0
    /\ offers' = <<>> /\ last_offer' = 0
    /\ UNCHANGED <<reported, attempted, groups_before, dicts>>
    /\ UNCHANGED <<params, uvars, groups, lock_idx, chars_by_role, shuffled_pending,
                   cvars, hvars>>

\* _log_final_results(groups); return groups
ReturnGroups ==
    /\ engine = "simple" /\ pc = "priority_group"
    /\ tier_idx > Len(group_priority)
    /\ pc' = "done"
    /\ returned' = TRUE
    /\ UNCHANGED <<params, tvars, uvars, groups, svars, cvars, lock_ok, lock_seen, sizes_before>>

\* a defaultdict(int) tally of key(c) over a member list, returned as a dict
CountBy(chars, key(_)) ==
    [k \in {key(c) : c \in Range(chars)} |->
        Cardinality({i \in 1..Len(chars) : key(chars[i]) = k})]

\* the per-character dict both serializers build (names stand for positions;
\* class_name and spec_name are read off the same table rows)
character_dict(c) ==
    [ name |-> c, class_name |-> SpecClass[all_characters[c].spec_id],
      spec_name |-> all_characters[c].spec_id,
      role_raid |-> role_raid(c), role_group |-> role_group(c),
      armor_type |-> armor_type(c), tier_token |-> tier_token(c),
      buffs |-> raid_buff_ids(c) ]

\* SimpleRaidSplitter._calculate_priority_score / RaidGroup.get_priority_score
calculate_priority_score(grp) ==
    LET pcnt == CountBy(grp.characters, role_group)
    IN  (DictGet(pcnt, "main") * 3) + (DictGet(pcnt, "alt") * 2) + (DictGet(pcnt, "helper") * 1)

\* the group_dict SimpleRaidSplitter.groups_to_dict builds for group number g
SimpleGroup_dict(grp, g) ==
    LET role_counts == CountBy(grp.characters, role_raid)
        priority_counts == CountBy(grp.characters, role_group)
    IN  [ group_id |-> g,
          total_members |-> Len(grp.characters),
          tanks |-> DictGet(role_counts, "tank"),
          healers |-> DictGet(role_counts, "healer"),
          dps |-> DictGet(role_counts, "mdps") + DictGet(role_counts, "rdps"),
          mains_count |-> DictGet(priority_counts, "main"),
          priority_score |-> calculate_priority_score(grp),
          variable_1 |-> DictGet(priority_counts, "main"),
          variable_2 |-> Len(grp.characters),
          armor_distribution_mains |-> get_armor_distribution_mains(grp),
          tier_distribution_mains |-> get_tier_distribution_mains(grp),
          armor_distribution |-> CountBy(grp.characters, armor_type),
          tier_distribution |-> CountBy(grp.characters, tier_token),
          characters |-> [k \in 1..Len(grp.characters) |->
                            [ char |-> character_dict(grp.characters[k]),
                              is_locked |-> is_locked(grp.characters[k]) ]] ]

\* variant: the serializer drains each member list while it walks it
SimpleRaidSplitter_groups_to_dict_Drains(grps) ==
    [ result |-> [g \in 1..Len(grps) |-> SimpleGroup_dict(grps[g], g)],
      groups |-> [g \in 1..Len(grps) |-> [grps[g] EXCEPT !.characters = <<>>]] ]

\* SimpleRaidSplitter.groups_to_dict: the list it returns, and the groups as the
\* call leaves them (it assigns to no field of a group)
SimpleRaidSplitter_groups_to_dict(grps) ==
    [ result |-> [g \in 1..Len(grps) |-> SimpleGroup_dict(grps[g], g)],
      groups |-> grps ]

\* a caller serializes the returned groups (app.py does so once per request)
SimpleGroupsToDict ==
    /\ engine = "simple" /\ pc = "done"
    /\ Len(dicts) < MaxSerializations
    /\ LET r == SimpleRaidSplitter_groups_to_dict(groups)
       IN  /\ dicts' = Append(dicts, r.result)
           /\ groups' = r.groups
    /\ UNCHANGED <<reported, attempted, offers, last_offer, groups_before>>
    /\ UNCHANGED <<params, uvars, pc, svars, cvars, hvars>>

NextSimple ==
    \/ SimpleGroupsToDict
    \/ ApplyLockedAssignment
    \/ LockedAssignmentsDone
    \/ DistributePriorityGroup
    \/ DistributeRoleRoundRobin
    \/ NextCharacter
    \/ TryGroup
    \/ RoleDone
    \/ ReturnGroups

SpecSimple == InitSimple /\ [][NextSimple]_vars

---------------------------------------------------------------------------
(* Complex engine: RaidSplitter.create_optimal_groups *)

ComplexSpecs == {"warrior_protection", "druid_guardian", "druid_restoration", "shaman_elemental"}
ComplexTiers == {"main", "alt", "helper"}

InitComplex ==
    /\ engine = "complex"
    /\ all_characters \in Rosters(CharRecords(ComplexSpecs, ComplexTiers, {Unlocked}))
    /\ num_groups \in 1..MaxGroups
    /\ group_size \in 1..MaxGroupSize
    /\ healers_per_group \in 1..MaxHealersPerGroup
    /\ groups = [g \in 1..num_groups |-> EmptyGroup]
    /\ pc = "load"
    /\ InitLocals

\* categorize_characters: every role that is neither tank nor healer goes to dps
categorize_characters ==
    [ tanks   |-> Filter(AllIds, {c \in CharIds : role_raid(c) = "tank"}),
      healers |-> Filter(AllIds, {c \in CharIds : role_raid(c) = "healer"}),
      dps     |-> Filter(AllIds, {c \in CharIds : role_raid(c) \notin {"tank", "healer"}}) ]

\* if not all_characters: raise ValueError("No characters found in database")
RaiseNoCharacters ==
    /\ engine = "complex" /\ pc = "load"
    /\ all_characters = <<>>
    /\ pc' = "error"
    /\ UNCHANGED <<params, tvars, uvars, groups, svars, cvars, hvars>>

\* phases 1-3 and the head of distribute_tanks: tank_chars sorted by priority
StartTanks ==
    /\ engine = "complex" /\ pc = "load"
    /\ all_characters # <<>>
    /\ queue' = SortByPriority(categorize_characters.tanks)
    /\ qi' = 0
    /\ pc' = "tanks"
    /\ UNCHANGED <<params, tvars, uvars, groups, svars, used_role, gi, slot, bvars, ovars, hvars>>

\* one iteration of the round-robin loop of distribute_tanks
DistributeTank ==
    /\ engine = "complex" /\ pc = "tanks"
    /\ qi < Len(queue)
    /\ LET tank == queue[qi + 1]
           g == (qi % Len(groups)) + 1
       IN  /\ used_role' = IF RaidGroup_can_add_character(groups[g], tank)
                           THEN used_role \cup {tank} ELSE used_role
           /\ groups' = [groups EXCEPT ![g] = RaidGroup_add_character(@, tank)]
    /\ qi' = qi + 1
    /\ UNCHANGED <<params, tvars, uvars, pc, svars, queue, gi, slot, bvars, ovars, hvars>>

\* base_healers_per_group + (1 if group_idx < extra_healers else 0), g 1-based
target_for_this_group(n_healers, g) ==
    (n_healers \div Len(groups)) + (IF g - 1 < n_healers % Len(groups) THEN 1 ELSE 0)

\* the next position <<group, slot>> of the nested loops that has a body to run
RECURSIVE HealerPosition(_, _, _)
HealerPosition(n_healers, g, s) ==
    IF g > Len(groups) THEN <<g, 0>>
    ELSE IF s < target_for_this_group(n_healers, g) THEN <<g, s>>
    ELSE HealerPosition(n_healers, g + 1, 0)

\* distribute_tanks returns; the head of distribute_healers picks the branch
StartHealers ==
    /\ engine = "complex" /\ pc = "tanks"
    /\ qi >= Len(queue)
    /\ LET healer_chars == SortByPriority(categorize_characters.healers)
           pos == HealerPosition(Len(healer_chars), 1, 0)
       IN  /\ queue' = healer_chars
           /\ qi' = 0
           /\ IF Len(healer_chars) < Len(groups) * healers_per_group
              THEN /\ pc' = "healers_short" /\ gi' = pos[1] /\ slot' = pos[2]
              ELSE /\ pc' = "healers_std" /\ gi' = 1 /\ slot' = 0
    /\ UNCHANGED <<params, tvars, uvars, groups, svars, used_role, bvars, ovars, hvars>>

\* one run of the inner loop body of the "not enough healers" branch
DistributeHealerShortfall ==
    /\ engine = "complex" /\ pc = "healers_short"
    /\ gi <= Len(groups)
    /\ LET pos == HealerPosition(Len(queue), gi, slot + 1)
       IN  /\ gi' = pos[1] /\ slot' = pos[2]
    /\ IF qi < Len(queue)
       THEN LET healer == queue[qi + 1]
                ok == RaidGroup_can_add_character(groups[gi], healer)
            IN  /\ groups' = [groups EXCEPT ![gi] = RaidGroup_add_character(@, healer)]
                /\ used_role' = IF ok THEN used_role \cup {healer} ELSE used_role
                /\ qi' = IF ok THEN qi + 1 ELSE qi
       ELSE UNCHANGED <<groups, used_role, qi>>
    /\ UNCHANGED <<params, tvars, uvars, pc, svars, queue, bvars, ovars, hvars>>

\* one iteration of the "enough healers" loop over healer_chars[:total_healers_needed]
DistributeHealerStandard ==
    /\ engine = "complex" /\ pc = "healers_std"
    /\ qi < Len(queue) /\ qi < Len(groups) * healers_per_group
    /\ LET healer == queue[qi + 1]
           g == (qi \div healers_per_group) + 1
       IN  IF g - 1 < Len(groups)
           THEN /\ groups' = [groups EXCEPT ![g] = RaidGroup_add_character(@, healer)]
                /\ used_role' = IF RaidGroup_can_add_character(groups[g], healer)
                                THEN used_role \cup {healer} ELSE used_role
           ELSE UNCHANGED <<groups, used_role>>
    /\ qi' = qi + 1
    /\ UNCHANGED <<params, tvars, uvars, pc, svars, queue, gi, slot, bvars, ovars, hvars>>

\* distribute_healers returns; remaining_chars is what neither role pass used
StartBuffCoverage ==
    /\ engine = "complex"
    /\ \/ pc = "healers_short" /\ gi > Len(groups)
       \/ pc = "healers_std" /\ ~(qi < Len(queue) /\ qi < Len(groups) * healers_per_group)
    /\ remaining_chars' = Filter(AllIds, CharIds \ used_role)
    /\ used_chars' = {}
    /\ gi' = 1 /\ slot' = 0 /\ queue' = <<>> /\ qi' = 0
    /\ pc' = "buffs"
    /\ UNCHANGED <<params, tvars, uvars, groups, svars, used_role, available_chars, missing_buffs,
                   added_to_this_group, slots_needed, ovars, hvars>>

\* RaidGroup.get_buffs_provided
get_buffs_provided(grp) == UNION {raid_buff_ids(c) : c \in Range(grp.characters)}

\* for group in groups: skip a full group, else compute missing_buffs.  A buff that
\* no remaining character provides only logs a warning when its turn comes, so the
\* iteration is over the buffs somebody could provide
BuffGroupStart ==
    /\ engine = "complex" /\ pc = "buffs"
    /\ gi <= Len(groups)
    /\ IF Len(groups[gi].characters) >= group_size
       THEN /\ gi' = gi + 1
            /\ UNCHANGED <<pc, missing_buffs, scan_missing>>
       ELSE /\ missing_buffs' =
                 {b \in required_buffs \ get_buffs_provided(groups[gi]) :
                     \E c \in Range(remaining_chars) : b \in raid_buff_ids(c)}
            /\ scan_missing' = required_buffs \ get_buffs_provided(groups[gi])
            /\ pc' = "buff"
            /\ UNCHANGED gi
    /\ UNCHANGED <<swap_before, iter_swaps>>
    /\ UNCHANGED <<params, tvars, groups, svars, queue, qi, used_role, slot, used_chars,
                   remaining_chars, available_chars, added_to_this_group,
                   slots_needed, ovars, hvars>>

\* variant: "char not in used_chars" is not tested
buff_provider_IgnoresUsed(grp, buff) ==
    LET ok == {k \in 1..Len(remaining_chars) :
                 /\ buff \in raid_buff_ids(remaining_chars[k])
                 /\ RaidGroup_can_add_character(grp, remaining_chars[k])}
    IN  IF ok = {} THEN 0
        ELSE remaining_chars[CHOOSE k \in ok : \A h \in ok : k <= h]

\* the first char of remaining_chars that passes the three tests (0: none)
buff_provider(grp, buff) ==
    LET ok == {k \in 1..Len(remaining_chars) :
                 /\ remaining_chars[k] \notin used_chars
                 /\ buff \in raid_buff_ids(remaining_chars[k])
                 /\ RaidGroup_can_add_character(grp, remaining_chars[k])}
    IN  IF ok = {} THEN 0
        ELSE remaining_chars[CHOOSE k \in ok : \A h \in ok : k <= h]

\* one iteration of "for buff in missing_buffs" (a set: any order)
EnsureBuff ==
    /\ engine = "complex" /\ pc = "buff"
    /\ missing_buffs # {}
    /\ ~(Len(groups[gi].characters) >= group_size)
    /\ \E buff \in missing_buffs :
        /\ missing_buffs' = missing_buffs \ {buff}
        /\ LET p == buff_provider(groups[gi], buff)
           IN  IF p # 0
               THEN /\ groups' = [groups EXCEPT ![gi] = RaidGroup_add_character(@, p)]
                    /\ used_chars' = IF RaidGroup_can_add_character(groups[gi], p)
                                     THEN used_chars \cup {p} ELSE used_chars
               ELSE UNCHANGED <<groups, used_chars>>
    /\ UNCHANGED <<params, tvars, uvars, pc, svars, rvars, remaining_chars, available_chars,
                   added_to_this_group, slots_needed, ovars, hvars>>

\* the buff loop of this group ends (exhausted, or break at capacity)
BuffGroupDone ==
    /\ engine = "complex" /\ pc = "buff"
    /\ missing_buffs = {} \/ Len(groups[gi].characters) >= group_size
    /\ missing_buffs' = {}
    /\ gi' = gi + 1
    /\ pc' = "buffs"
    /\ UNCHANGED <<params, tvars, uvars, groups, svars, queue, qi, used_role, slot, used_chars,
                   remaining_chars, available_chars, added_to_this_group,
                   slots_needed, ovars, hvars>>

\* ensure_buff_coverage returns; the head of fill_remaining_slots
StartFill ==
    /\ engine = "complex" /\ pc = "buffs"
    /\ gi > Len(groups)
    /\ LET rem == Filter(remaining_chars, CharIds \ used_chars)
       IN  /\ remaining_chars' = rem
           /\ available_chars' =
                 SortByPriority(Filter(rem, {c \in CharIds : ~InAnyGroup(groups, c)}))
    /\ used_chars' = {}
    /\ gi' = 1
    /\ pc' = "fill"
    /\ UNCHANGED <<params, tvars, uvars, groups, svars, queue, qi, used_role, slot, missing_buffs,
                   added_to_this_group, slots_needed, ovars, hvars>>

\* for group in groups: skip a group at target_size, else collect its candidates
FillGroupStart ==
    /\ engine = "complex" /\ pc = "fill"
    /\ gi <= Len(groups)
    /\ IF group_size - Len(groups[gi].characters) <= 0
       THEN /\ gi' = gi + 1
            /\ UNCHANGED <<pc, queue, qi, slots_needed, added_to_this_group>>
       ELSE /\ slots_needed' = group_size - Len(groups[gi].characters)
            /\ queue' = Filter(available_chars,
                               {c \in CharIds : /\ c \notin used_chars
                                                /\ RaidGroup_can_add_character(groups[gi], c)})
            /\ qi' = 0
            /\ added_to_this_group' = 0
            /\ pc' = "fill_add"
            /\ UNCHANGED gi
    /\ UNCHANGED <<params, tvars, uvars, groups, svars, used_role, slot, used_chars, remaining_chars,
                   available_chars, missing_buffs, ovars, hvars>>

\* variant: the candidate loop stops after the first add
fill_break_AfterOne(added, needed) == added >= 1

\* if added_to_this_group >= slots_needed: break
fill_break(added, needed) == added >= needed

\* one iteration of "for char in candidates"
FillAdd ==
    /\ engine = "complex" /\ pc = "fill_add"
    /\ qi < Len(queue) /\ ~fill_break(added_to_this_group, slots_needed)
    /\ LET c == queue[qi + 1]
           ok == RaidGroup_can_add_character(groups[gi], c)
       IN  /\ groups' = [groups EXCEPT ![gi] = RaidGroup_add_character(@, c)]
           /\ used_chars' = IF ok THEN used_chars \cup {c} ELSE used_chars
           /\ added_to_this_group' = IF ok THEN added_to_this_group + 1
                                     ELSE added_to_this_group
    /\ qi' = qi + 1
    /\ UNCHANGED <<params, tvars, uvars, pc, svars, queue, used_role, gi, slot, remaining_chars,
                   available_chars, missing_buffs, slots_needed, ovars, hvars>>

\* the candidate loop of this group ends (exhausted, or break at slots_needed)
FillGroupDone ==
    /\ engine = "complex" /\ pc = "fill_add"
    /\ ~(qi < Len(queue)) \/ fill_break(added_to_this_group, slots_needed)
    /\ gi' = gi + 1
    /\ queue' = <<>> /\ qi' = 0 /\ added_to_this_group' = 0 /\ slots_needed' = 0
    /\ pc' = "fill"
    /\ UNCHANGED <<params, tvars, uvars, groups, svars, used_role, slot, used_chars, remaining_chars,
                   available_chars, missing_buffs, ovars, hvars>>

---------------------------------------------------------------------------
(* Balance optimizer: optimize_armor_and_tier_distribution *)

\* sum((4*count - total)^2), that is 16 * sum((count - total/4)^2)
RECURSIVE SquaresOver(_, _, _)
SquaresOver(d, keys, total) ==
    IF keys = {} THEN 0
    ELSE LET k == CHOOSE x \in keys : TRUE
         IN  (4 * d[k] - total) * (4 * d[k] - total) + SquaresOver(d, keys \ {k}, total)

\* 16 * _calculate_variance(d) as an exact fraction <<numerator, denominator>>:
\* the common factor leaves every comparison of scores as it is
calculate_variance(d) ==
    LET total == SumOver(d, DOMAIN d)
    IN  IF total = 0 THEN <<0, 1>>
        ELSE <<SquaresOver(d, DOMAIN d, total), total>>

FracAdd(x, y) == <<x[1] * y[2] + y[1] * x[2], x[2] * y[2]>>
FracLess(x, y) == x[1] * y[2] < y[1] * x[2]

\* the simulated dict after taking `out` away and putting `inn` in
SimulateSwap(d, out, inn) ==
    LET d1 == DictSet(d, out, IF DictGet(d, out) - 1 > 0 THEN DictGet(d, out) - 1 ELSE 0)
    IN  DictSet(d1, inn, DictGet(d1, inn) + 1)

\* the mains-only score of two groups as they are
total_variance(grp1, grp2) ==
    FracAdd(FracAdd(calculate_variance(get_armor_distribution_mains(grp1)),
                    calculate_variance(get_armor_distribution_mains(grp2))),
            FracAdd(calculate_variance(get_tier_distribution_mains(grp1)),
                    calculate_variance(get_tier_distribution_mains(grp2))))

\* variant: the scores are not compared
would_improve_distribution_mains_only_Unchecked(grp1, grp2, char1, char2) ==
    role_group(char1) = "main" /\ role_group(char2) = "main"

\* _would_improve_distribution_mains_only
would_improve_distribution_mains_only(grp1, grp2, char1, char2) ==
    LET armor1_before == get_armor_distribution_mains(grp1)
        armor2_before == get_armor_distribution_mains(grp2)
        tier1_before == get_tier_distribution_mains(grp1)
        tier2_before == get_tier_distribution_mains(grp2)
        total_variance_before == total_variance(grp1, grp2)
        armor1_after == SimulateSwap(armor1_before, armor_type(char1), armor_type(char2))
        armor2_after == SimulateSwap(armor2_before, armor_type(char2), armor_type(char1))
        tier1_after == SimulateSwap(tier1_before, tier_token(char1), tier_token(char2))
        tier2_after == SimulateSwap(tier2_before, tier_token(char2), tier_token(char1))
        total_variance_after ==
            FracAdd(FracAdd(calculate_variance(armor1_after), calculate_variance(armor2_after)),
                    FracAdd(calculate_variance(tier1_after), calculate_variance(tier2_after)))
    IN  IF role_group(char1) # "main" \/ role_group(char2) # "main" THEN FALSE
        ELSE FracLess(total_variance_after, total_variance_before)

\* the condition under which the scan attempts a swap of char1 and char2
SwapCandidate(grp1, grp2, char1, char2) ==
    /\ role_raid(char1) = role_raid(char2)
    /\ armor_type(char1) # armor_type(char2) \/ tier_token(char1) # tier_token(char2)
    /\ would_improve_distribution_mains_only(grp1, grp2, char1, char2)

Sizes(grps) == [g \in 1..Len(grps) |-> Len(grps[g].characters)]

\* the pair after <<i, j>> in "for i ...: for j in i+1 ..." (<<0, 0>>: none)
NextPair(p) ==
    IF p[2] < Len(groups) THEN <<p[1], p[2] + 1>>
    ELSE IF p[1] + 2 <= Len(groups) THEN <<p[1] + 1, p[1] + 2>>
    ELSE <<0, 0>>

\* fill_remaining_slots returns; the optimizer starts its first iteration
StartOptimize ==
    /\ engine = "complex" /\ pc = "fill"
    /\ gi > Len(groups)
    /\ sizes_before' = Sizes(groups)
    /\ groups_before' = groups
    /\ iteration' = 0
    /\ improved' = FALSE
    /\ IF Len(groups) >= 2
       THEN /\ pair' = <<1, 2>> /\ pc' = "try_swap"
       ELSE /\ pc' = "validate" /\ UNCHANGED pair
    /\ gi' = 1
    /\ swap_before' = <<>> /\ iter_swaps' = <<>>
    /\ UNCHANGED <<reported, attempted, offers, last_offer, dicts, scan_missing>>
    /\ UNCHANGED <<params, groups, svars, queue, qi, used_role, slot, bvars,
                   mains1, mains2, m1, m2, lock_ok, lock_seen, returned>>

\* the head of _try_armor_and_tier_swap_mains_only(group1, group2)
TrySwapStart ==
    /\ engine = "complex" /\ pc = "try_swap"
    /\ mains1' = Mains(groups[pair[1]])
    /\ mains2' = Mains(groups[pair[2]])
    /\ m1' = 1 /\ m2' = 1
    /\ pc' = "scan"
    /\ UNCHANGED <<params, tvars, uvars, groups, svars, rvars, bvars, iteration, improved, pair, hvars>>

\* the loop position after <<m1, m2>>
ScanAdvance ==
    IF m2 < Len(mains2) THEN /\ m2' = m2 + 1 /\ UNCHANGED m1
    ELSE /\ m1' = m1 + 1 /\ m2' = 1

\* one iteration of "for char1 in mains1: for char2 in mains2": test the pair
ScanPair ==
    /\ engine = "complex" /\ pc = "scan"
    /\ m1 <= Len(mains1) /\ m2 <= Len(mains2)
    /\ IF SwapCandidate(groups[pair[1]], groups[pair[2]], mains1[m1], mains2[m2])
       THEN /\ pc' = "swap_remove1" /\ UNCHANGED <<m1, m2>>
       ELSE /\ ScanAdvance /\ UNCHANGED pc
    /\ UNCHANGED <<params, tvars, uvars, groups, svars, rvars, bvars, iteration, improved, pair,
                   mains1, mains2, hvars>>

\* group1.remove_character(char1)
SwapRemove1 ==
    /\ engine = "complex" /\ pc = "swap_remove1"
    /\ groups' = [groups EXCEPT ![pair[1]] = RaidGroup_remove_character(@, mains1[m1])]
    /\ pc' = "swap_remove2"
    /\ swap_before' = groups
    /\ UNCHANGED <<iter_swaps, scan_missing>>
    /\ UNCHANGED <<params, tvars, svars, cvars, hvars>>

\* group2.remove_character(char2)
SwapRemove2 ==
    /\ engine = "complex" /\ pc = "swap_remove2"
    /\ groups' = [groups EXCEPT ![pair[2]] = RaidGroup_remove_character(@, mains2[m2])]
    /\ pc' = "swap_add1"
    /\ UNCHANGED <<params, tvars, uvars, svars, cvars, hvars>>

\* variant: "if not improved: break" is missing
next_iteration_NoBreak(imp, it) == it + 1 < MaxOptimizationIterations

\* "for iteration in range(10)" goes on: the range is not exhausted and the
\* iteration that ends improved
next_iteration(imp, it) == imp /\ it + 1 < MaxOptimizationIterations

\* control after _try_armor_and_tier_swap_mains_only returned `result`:
\* next pair, or the end of the iteration (break when nothing improved)
AfterTrySwap(result) ==
    LET imp == improved \/ result
        np == NextPair(pair)
    IN  /\ mains1' = <<>> /\ mains2' = <<>> /\ m1' = 1 /\ m2' = 1
        /\ IF np # <<0, 0>>
           THEN /\ pair' = np /\ improved' = imp /\ pc' = "try_swap"
                /\ iter_swaps' = IF result THEN Append(iter_swaps, pair) ELSE iter_swaps
                /\ UNCHANGED iteration
           ELSE IF next_iteration(imp, iteration)
           THEN /\ pair' = <<1, 2>> /\ improved' = FALSE /\ pc' = "try_swap"
                /\ iter_swaps' = <<>>
                /\ iteration' = iteration + 1
           ELSE /\ pc' = "validate" /\ improved' = imp
                /\ iter_swaps' = IF result THEN Append(iter_swaps, pair) ELSE iter_swaps
                /\ UNCHANGED <<pair, iteration>>

\* group1.add_character(char2): the left operand of the "and"
SwapAdd1 ==
    /\ engine = "complex" /\ pc = "swap_add1"
    /\ LET ok == RaidGroup_can_add_character(groups[pair[1]], mains2[m2])
       IN  /\ groups' = [groups EXCEPT ![pair[1]] = RaidGroup_add_character(@, mains2[m2])]
           /\ pc' = IF ok THEN "swap_add2" ELSE "revert1"
    /\ UNCHANGED <<params, tvars, uvars, svars, cvars, hvars>>

\* group2.add_character(char1): the right operand; True ends the call with a swap
SwapAdd2 ==
    /\ engine = "complex" /\ pc = "swap_add2"
    /\ LET ok == RaidGroup_can_add_character(groups[pair[2]], mains1[m1])
       IN  /\ groups' = [groups EXCEPT ![pair[2]] = RaidGroup_add_character(@, mains1[m1])]
           /\ IF ok THEN AfterTrySwap(TRUE)
              ELSE /\ pc' = "revert1"
                   /\ UNCHANGED <<ovars, iter_swaps>>
    /\ UNCHANGED <<swap_before, scan_missing>>
    /\ UNCHANGED <<params, tvars, svars, rvars, bvars, hvars>>

\* "Revert if swap failed": group1.add_character(char1)
Revert1 ==
    /\ engine = "complex" /\ pc = "revert1"
    /\ groups' = [groups EXCEPT ![pair[1]] = RaidGroup_add_character(@, mains1[m1])]
    /\ pc' = "revert2"
    /\ UNCHANGED <<params, tvars, uvars, svars, cvars, hvars>>

\* group2.add_character(char2), then the scan goes on
Revert2 ==
    /\ engine = "complex" /\ pc = "revert2"
    /\ groups' = [groups EXCEPT ![pair[2]] = RaidGroup_add_character(@, mains2[m2])]
    /\ ScanAdvance
    /\ pc' = "scan"
    /\ UNCHANGED <<params, tvars, uvars, svars, rvars, bvars, iteration, improved, pair,
                   mains1, mains2, hvars>>

\* both loops are exhausted: return False
TrySwapFailed ==
    /\ engine = "complex" /\ pc = "scan"
    /\ ~(m1 <= Len(mains1) /\ m2 <= Len(mains2))
    /\ AfterTrySwap(FALSE)
    /\ UNCHANGED <<swap_before, scan_missing>>
    /\ UNCHANGED <<params, tvars, groups, svars, rvars, bvars, hvars>>

\* validate_groups(groups) only logs; return groups
ValidateAndReturn ==
    /\ engine = "complex" /\ pc = "validate"
    /\ pc' = "done"
    /\ returned' = TRUE
    /\ UNCHANGED <<params, tvars, uvars, groups, svars, cvars, lock_ok, lock_seen, sizes_before>>

\* the group_dict RaidSplitter.groups_to_dict builds for group number g;
\* buffs_provided is list(set): the set, in the order of one and the same build
RaidGroup_dict(grp, g) ==
    LET mains_armor_dist == get_armor_distribution_mains(grp)
        mains_count == Len(Mains(grp))
    IN  [ group_id |-> g,
          total_members |-> Len(grp.characters),
          mains_count |-> mains_count,
          tanks |-> Len(grp.tanks),
          healers |-> Len(grp.healers),
          dps |-> Len(grp.dps),
          variable_1 |-> mains_count,
          variable_2 |-> SumOver(mains_armor_dist, DOMAIN mains_armor_dist),
          characters |-> [k \in 1..Len(grp.characters) |->
                            character_dict(grp.characters[k])],
          armor_distribution |-> CountBy(grp.characters, armor_type),
          armor_distribution_mains |-> mains_armor_dist,
          tier_distribution |-> CountBy(grp.characters, tier_token),
          tier_distribution_mains |-> get_tier_distribution_mains(grp),
          buffs_provided |-> get_buffs_provided(grp),
          priority_score |-> calculate_priority_score(grp) ]

\* RaidSplitter.groups_to_dict: the list it returns, and the groups as the call
\* leaves them
RaidSplitter_groups_to_dict(grps) ==
    [ result |-> [g \in 1..Len(grps) |-> RaidGroup_dict(grps[g], g)],
      groups |-> grps ]

\* a caller serializes the returned groups
ComplexGroupsToDict ==
    /\ engine = "complex" /\ pc = "done"
    /\ Len(dicts) < MaxSerializations
    /\ LET r == RaidSplitter_groups_to_dict(groups)
       IN  /\ dicts' = Append(dicts, r.result)
           /\ groups' = r.groups
    /\ UNCHANGED <<reported, attempted, offers, last_offer, groups_before>>
    /\ UNCHANGED <<params, uvars, pc, svars, cvars, hvars>>

NextComplex ==
    \/ ComplexGroupsToDict
    \/ RaiseNoCharacters
    \/ StartTanks
    \/ DistributeTank
    \/ StartHealers
    \/ DistributeHealerShortfall
    \/ DistributeHealerStandard
    \/ StartBuffCoverage
    \/ BuffGroupStart
    \/ EnsureBuff
    \/ BuffGroupDone
    \/ StartFill
    \/ FillGroupStart
    \/ FillAdd
    \/ FillGroupDone
    \/ StartOptimize
    \/ TrySwapStart
    \/ ScanPair
    \/ SwapRemove1
    \/ SwapRemove2
    \/ SwapAdd1
    \/ SwapAdd2
    \/ Revert1
    \/ Revert2
    \/ TrySwapFailed
    \/ ValidateAndReturn

SpecComplex == InitComplex /\ [][NextComplex]_vars

Init == InitSimple \/ InitComplex
Next == NextSimple \/ NextComplex
Spec == Init /\ [][Next]_vars

---------------------------------------------------------------------------
(* A second family of rosters for the simple engine: tanks of the tiers main *)
(* and alt, and characters whose spec row carries an unrecognized role       *)

ScenarioSpecs == {"warrior_protection", "unlisted_spec"}
ScenarioTiers == {"main", "alt"}
ScenarioLocks == {Unlocked, [is_locked |-> TRUE, locked_to_group |-> 1]}

InitScenario ==
    /\ engine = "simple"
    /\ all_characters \in Rosters(CharRecords(ScenarioSpecs, ScenarioTiers, ScenarioLocks))
    /\ num_groups \in 1..MaxGroups
    /\ group_size \in 1..MaxGroupSize
    /\ healers_per_group = 0
    /\ groups = [g \in 1..num_groups |-> EmptyGroup]
    /\ pc = "apply_locks"
    /\ InitLocals

SpecScenario == (InitScenario \/ InitComplex) /\ [][Next]_vars

---------------------------------------------------------------------------
(* Runs to completion: one call executes start to finish on one thread, so   *)
(* the next step of the running engine is always taken (weak fairness).      *)
(* Locks here name the first group or a group that does not exist.           *)

TerminationLocks ==
    {Unlocked} \cup {[is_locked |-> TRUE, locked_to_group |-> t] : t \in {1, MaxGroups + 1}}
TerminationSimpleSpecs == {"warrior_protection"}
TerminationComplexSpecs == {"warrior_protection", "druid_guardian", "druid_restoration"}
TerminationTiers == {"main", "helper"}
TerminationComplexTiers == {"main"}

InitTermination ==
    /\ \/ /\ engine = "simple"
          /\ all_characters \in
                Rosters(CharRecords(TerminationSimpleSpecs, TerminationTiers, TerminationLocks))
          /\ healers_per_group = 0
          /\ pc = "apply_locks"
       \/ /\ engine = "complex"
          /\ all_characters \in
                Rosters(CharRecords(TerminationComplexSpecs, TerminationComplexTiers, {Unlocked}))
          /\ healers_per_group \in 1..MaxHealersPerGroup
          /\ pc = "load"
    /\ num_groups \in 1..MaxGroups
    /\ group_size \in 1..MaxGroupSize
    /\ groups = [g \in 1..num_groups |-> EmptyGroup]
    /\ InitLocals

SpecTermination ==
    /\ InitTermination
    /\ [][Next]_vars
    /\ WF_vars(Next)

---------------------------------------------------------------------------
(* Properties *)

\* how often character c occurs in the member lists of all groups
Occurrences(c) ==
    Cardinality({<<g, k>> \in (1..Len(groups)) \X (1..MaxChars + 2) :
                    k <= Len(groups[g].characters) /\ groups[g].characters[k] = c})

RECURSIVE SumSizes(_)
SumSizes(g) == IF g = 0 THEN 0 ELSE Len(groups[g].characters) + SumSizes(g - 1)
TotalMembers == SumSizes(Len(groups))

Unassigned == {c \in CharIds : ~InAnyGroup(groups, c)}

\* C1: simple engine, every state of create_groups: no group has more than
\* group_size members
C1_SimpleCapacity ==
    engine = "simple" =>
        \A g \in 1..Len(groups) : Len(groups[g].characters) <= group_size

\* the run returned with a full group that would otherwise have taken a character
\* left out: the size limit alone rejected it
C1_Witness ==
    /\ engine = "simple" /\ returned
    /\ \E g \in 1..Len(groups), c \in Unassigned :
          /\ Len(groups[g].characters) = group_size
          /\ player_id(c) \notin groups[g].players_used
          /\ ~is_locked(c)

\* C2: complex engine: every group create_optimal_groups returns has at most
\* group_size members
C2_ComplexCapacity ==
    (engine = "complex" /\ returned) =>
        \A g \in 1..Len(groups) : Len(groups[g].characters) <= group_size

\* C3: complex engine: in the returned groups every character occurs at most
\* once, and group sizes plus unassigned characters add up to the roster
C3_ComplexConservation ==
    (engine = "complex" /\ returned) =>
        /\ \A c \in CharIds : Occurrences(c) <= 1
        /\ TotalMembers + Cardinality(Unassigned) = Len(all_characters)

\* C4: simple engine, every state of create_groups: every character occurs at
\* most once over all groups; at the end sizes plus unassigned equal the roster
C4_SimpleConservation ==
    engine = "simple" =>
        /\ \A g \in 1..Len(groups) : Range(groups[g].characters) \subseteq CharIds
        /\ \A c \in CharIds : Occurrences(c) <= 1
        /\ returned => TotalMembers + Cardinality(Unassigned) = Len(all_characters)

\* the run returned with characters in two groups and a character in none
C4_Witness ==
    /\ engine = "simple" /\ returned
    /\ Unassigned # {}
    /\ \E g, h \in 1..Len(groups) :
          g # h /\ groups[g].characters # <<>> /\ groups[h].characters # <<>>

\* C5: both engines, every state: no two members of a group share a player, and
\* players_used is exactly the set of the members' players
C5_NoDuplicateOwnership ==
    \A g \in 1..Len(groups) :
        /\ \A k, h \in 1..Len(groups[g].characters) :
              k # h => player_id(groups[g].characters[k]) # player_id(groups[g].characters[h])
        /\ groups[g].players_used = {player_id(c) : c \in Range(groups[g].characters)}
        /\ Cardinality(groups[g].players_used) = Len(groups[g].characters)

\* the optimizer is in its revert sequence: both characters were removed, one
\* re-add was refused, and the first revert add has been made
C5_Witness ==
    /\ engine = "complex" /\ pc = "revert2"
    /\ \E g \in 1..Len(groups) : Len(groups[g].characters) >= 2

\* C6: the optimizer leaves every group's member count as it found it
C6_OptimizerKeepsCounts ==
    (engine = "complex" /\ pc \in {"validate", "done"}) => Sizes(groups) = sizes_before

\* C7: simple engine: a locked character whose target was in range, had free
\* capacity and did not hold its player when the lock was processed is a member
\* of the target group from then on, and so in the returned groups
C7_LockHonored ==
    engine = "simple" =>
        \A c \in lock_ok : InSeq(c, groups[locked_to_group(c)].characters)

\* the run returned with a lock that was satisfiable, after other characters
\* were distributed around it
C7_Witness ==
    /\ engine = "simple" /\ returned
    /\ lock_ok # {}
    /\ \E c \in CharIds : ~is_locked(c) /\ InAnyGroup(groups, c)

C9_PriorityOrdering ==
    (engine = "complex" /\ returned /\ num_groups * group_size < 2) =>
        \A m, h \in CharIds :
            (/\ role_group(m) = "main" /\ role_group(h) = "helper"
             /\ role_raid(m) = role_raid(h))
            => /\ ~InAnyGroup(groups, h)
               /\ Len(all_characters) = 2 => InAnyGroup(groups, m)

\* C10: with an empty roster neither engine returns groups as a normal result
C10_EmptyInputFatal ==
    all_characters = <<>> => ~returned

\* the four role values the engines know
KnownRoles == {"tank", "healer", "mdps", "rdps"}

\* C11: a character whose role value is none of the four is distributed like a
\* dps character: when the engine returns, such a character (not locked) is in a
\* group unless every group is full or already holds its player
C11_UnknownRoleCoerced ==
    returned =>
        \A c \in CharIds :
            (role_raid(c) \notin KnownRoles /\ ~is_locked(c) /\ ~InAnyGroup(groups, c))
            => \A g \in 1..Len(groups) :
                  \/ Len(groups[g].characters) >= group_size
                  \/ player_id(c) \in groups[g].players_used

\* C12: simple engine: when create_groups has returned, the characters named in
\* a could-not-lock or could-not-assign warning are exactly those in no group
C12_UnassignedReported ==
    (engine = "simple" /\ returned) => reported = Unassigned

\* C13: every run of either engine ends: create_groups and create_optimal_groups
\* return their groups, the latter unless the roster is empty (then it raises)
C13_Termination ==
    <>(returned \/ (pc = "error" /\ all_characters = <<>>))

\* a finished run on a pathological input: every character is owned by one
\* player, every lock was unsatisfiable, and every group ended full
C13_Witness ==
    /\ engine = "simple" /\ returned
    /\ Len(all_characters) = MaxChars
    /\ \A c \in CharIds : player_id(c) = player_id(1)
    /\ \E c \in CharIds : is_locked(c)
    /\ \A c \in CharIds : is_locked(c) => c \notin lock_ok
    /\ \A g \in 1..Len(groups) : Len(groups[g].characters) = group_size

\* the example roster: A(tank, main, playerX), B(tank, main, playerY),
\* C(tank, alt, playerX) with 2 groups of capacity 2 and no locks
ExampleScenario ==
    /\ num_groups = 2 /\ group_size = 2
    /\ Len(all_characters) = 3
    /\ \A c \in CharIds : role_raid(c) = "tank" /\ ~is_locked(c)
    /\ role_group(1) = "main" /\ role_group(2) = "main" /\ role_group(3) = "alt"
    /\ player_id(1) = player_id(3) /\ player_id(1) # player_id(2)

\* the group that holds character c (0: none)
GroupOf(c) ==
    IF InAnyGroup(groups, c)
    THEN CHOOSE g \in 1..Len(groups) : InSeq(c, groups[g].characters)
    ELSE 0

\* C14 as stated: on the example roster every run puts A and B in different
\* groups and leaves C in no group: 2 assigned, 1 unassigned
C14_ExampleScenario ==
    (returned /\ ExampleScenario) =>
        /\ GroupOf(1) # 0 /\ GroupOf(2) # 0 /\ GroupOf(1) # GroupOf(2)
        /\ GroupOf(3) = 0
        /\ TotalMembers = 2 /\ Cardinality(Unassigned) = 1

\* C14 amended: on the example roster every run of either engine puts A and B in
\* different groups and C in the group of B (the one that does not hold C's
\* player): 3 assigned, none unassigned
C14_ExampleAmended ==
    (returned /\ ExampleScenario) =>
        /\ GroupOf(1) # 0 /\ GroupOf(2) # 0 /\ GroupOf(1) # GroupOf(2)
        /\ GroupOf(3) = GroupOf(2)
        /\ \A c \in CharIds : Occurrences(c) = 1
        /\ TotalMembers = 3 /\ Unassigned = {}

\* the simple engine returned on the example roster, with A in the second group
C14_Witness ==
    /\ engine = "simple" /\ returned /\ ExampleScenario
    /\ GroupOf(1) = 2

(***************************************************************************)
(* Rosters with exactly two tanks per group, each of a player of its own,  *)
(* and at most one further character (a main healer) of any player.        *)
(***************************************************************************)
QuotaTankSpecs == {"warrior_protection", "druid_guardian"}
QuotaTankTiers == {"main", "alt"}

QuotaRecord(p, s, t) ==
    [player_id |-> p, spec_id |-> s, role_group |-> t,
     is_locked |-> FALSE, locked_to_group |-> 0]

QuotaRosters ==
    LET recs  == {QuotaRecord(p, s, t) : p \in 1..(2 * MaxGroups),
                                         s \in QuotaTankSpecs, t \in QuotaTankTiers}
        tanks == {r \in [1..(2 * MaxGroups) -> recs] :
                     \A i \in DOMAIN r : r[i].player_id = i}
        extra == {QuotaRecord(p, "druid_restoration", "main") : p \in 1..(2 * MaxGroups + 1)}
    IN  tanks \cup {Append(t, x) : t \in tanks, x \in extra}

InitTankQuota ==
    /\ engine = "complex"
    /\ all_characters \in QuotaRosters
    /\ num_groups \in 1..MaxGroups
    /\ group_size \in 2..(MaxGroupSize + 1)
    /\ healers_per_group = 1
    /\ groups = [g \in 1..num_groups |-> EmptyGroup]
    /\ pc = "load"
    /\ InitLocals

SpecQuota == (InitComplex \/ InitTankQuota) /\ [][NextComplex]_vars

\* the number of tank characters among the members of a group
TankCount(grp) == Len(SelectSeq(grp.characters, LAMBDA c : role_raid(c) = "tank"))

\* exactly 2 x num_groups tanks, each of a distinct player, and group_size >= 2
TankQuotaCase ==
    LET tanks == {c \in CharIds : role_raid(c) = "tank"}
    IN  /\ engine = "complex" /\ group_size >= 2
        /\ Cardinality(tanks) = 2 * num_groups
        /\ \A c, d \in tanks : c # d => player_id(c) # player_id(d)

\* C15: with exactly 2 x num_groups tanks of distinct players and
\* group_size >= 2, every group returned by create_optimal_groups holds
\* exactly 2 tanks
C15_TankQuota ==
    (returned /\ TankQuotaCase) => \A g \in 1..Len(groups) : TankCount(groups[g]) = 2

AddAccepted(g, c) ==
    /\ Len(groups[g].characters) < group_size
    /\ player_id(c) \notin groups[g].players_used
    /\ (~is_locked(c) \/ locked_to_group(c) = g)

\* the effect claimed for add_character(c) on group g
AddEffect(g, c) ==
    /\ \A h \in 1..Len(groups) : h # g => groups'[h] = groups[h]
    /\ IF AddAccepted(g, c)
       THEN /\ groups'[g].characters = Append(groups[g].characters, c)
            /\ groups'[g].players_used = groups[g].players_used \cup {player_id(c)}
       ELSE groups'[g] = groups[g]

\* C17: SimpleGroup.add_character(c) returns True, appends c and records its
\* player exactly when the group is below max_size, the player is not in
\* players_used and c is unlocked or locked to this group; otherwise it
\* returns False and changes nothing
C17_AddCharacter ==
    [][/\ (pc = "try_group" /\ engine = "simple") =>
             /\ AddEffect(last_offer', char)
             /\ assigned' = AddAccepted(last_offer', char)
       /\ (pc = "apply_locks" /\ lock_idx' = lock_idx + 1
             /\ locked_to_group(locked_chars[lock_idx]) \in 1..Len(groups)) =>
             AddEffect(locked_to_group(locked_chars[lock_idx]), locked_chars[lock_idx])]_vars

\* a group with a free slot and without the character's player has just
\* refused a character locked to another group
C17_Witness ==
    /\ engine = "simple" /\ last_offer # 0 /\ pc \in {"try_group", "next_char"}
    /\ ~assigned
    /\ is_locked(char) /\ locked_to_group(char) # last_offer
    /\ Len(groups[last_offer].characters) < group_size
    /\ player_id(char) \notin groups[last_offer].players_used
    /\ \E g \in 1..Len(groups) : Len(groups[g].characters) >= 1

\* the claimed precedence of tiers and of roles
TierRank(t) == CASE t = "main" -> 1 [] t = "alt" -> 2 [] t = "helper" -> 3
                 [] t = "inactive" -> 4 [] OTHER -> 5

RoleRank(r) == CASE r = "tank" -> 1 [] r = "healer" -> 2 [] r = "rdps" -> 3
                 [] r = "mdps" -> 4 [] OTHER -> 5

\* d belongs to a bucket that comes before the bucket of c
EarlierBucket(d, c) ==
    /\ TierRank(role_group(d)) <= 4 /\ RoleRank(role_raid(d)) <= 4
    /\ \/ TierRank(role_group(d)) < TierRank(role_group(c))
       \/ /\ TierRank(role_group(d)) = TierRank(role_group(c))
          /\ RoleRank(role_raid(d)) < RoleRank(role_raid(c))

RotationSuccessor(g) ==
    LET k == CHOOSE i \in 1..Len(available_groups) : available_groups[i] = g
    IN  available_groups[(k % Len(available_groups)) + 1]

\* C19: within a role bucket the first offer goes to a group of minimum size;
\* every later offer goes to the group that follows the previously offered one
\* in the rotation (wrapping, across characters); a character is offered to
\* each group at most once, to at most num_groups groups, and is given up
\* only after every group has refused it
C19_RoundRobin ==
    [][(engine = "simple" /\ pc = "try_group") =>
         LET g == last_offer'
         IN  /\ g \in 1..num_groups
             /\ IF last_offer = 0
                THEN \A h \in 1..num_groups :
                        Len(groups[g].characters) <= Len(groups[h].characters)
                ELSE g = RotationSuccessor(last_offer)
             /\ g \notin Range(offers)
             /\ offers' = Append(offers, g)
             /\ Len(offers') <= num_groups
             /\ (pc' = "next_char" /\ ~assigned') =>
                    /\ Range(offers') = 1..num_groups
                    /\ groups' = groups
                    /\ ~InAnyGroup(groups', char)]_vars

\* a character was offered to both groups, starting with the second of the
\* rotation, and both refused it
C19_Witness ==
    /\ engine = "simple" /\ pc = "next_char" /\ num_groups = 2
    /\ ~assigned /\ Len(offers) = 2
    /\ offers[1] = available_groups[2] /\ offers[2] = available_groups[1]
    /\ ~InAnyGroup(groups, char)
    /\ \E g \in 1..2 : Len(groups[g].characters) < group_size

C21_SwapReducesVariance ==
    [][(engine = "complex" /\ pc = "swap_add2" /\ pc' # "revert1") =>
          FracLess(total_variance(groups'[pair[1]], groups'[pair[2]]),
                   total_variance(swap_before[pair[1]], swap_before[pair[2]]))]_vars

\* a swap was completed in the first iteration: both groups changed and the
\* score of the pair went down
C21_Witness ==
    /\ engine = "complex" /\ iteration = 1 /\ pc = "try_swap" /\ swap_before # <<>>
    /\ groups[1].characters # swap_before[1].characters
    /\ groups[2].characters # swap_before[2].characters
    /\ FracLess(total_variance(groups[1], groups[2]),
                total_variance(swap_before[1], swap_before[2]))

C23_TwoTanksPerGroup ==
    (engine = "complex" /\ pc = "tanks" /\ qi >= Len(queue)) =>
        /\ \A g \in 1..Len(groups) : TankCount(groups[g]) <= 2
        /\ Len(queue) >= 2 * num_groups =>
               \A g \in 1..Len(groups) : TankCount(groups[g]) = 2

\* C24: when fewer healers exist than num_groups x healers_per_group,
\* distribute_healers places all H of them, group k (0-based) receiving
\* H div N healers plus one if k < H mod N, whoever owns the characters
C24_HealerShortfallEven ==
    (engine = "complex" /\ pc = "healers_short" /\ gi > Len(groups)) =>
        LET H == Len(queue)
            N == Len(groups)
        IN  /\ \A c \in Range(queue) : InAnyGroup(groups, c)
            /\ \A g \in 1..N :
                  Len(groups[g].healers) = (H \div N) + (IF g - 1 < H % N THEN 1 ELSE 0)

\* C25: a character that ensure_buff_coverage adds to a group provides a
\* required buff the group lacked when its scan began, passes
\* can_add_character, was not consumed earlier in the pass (it is in no
\* group yet) and joins a group below group_size; a group at capacity is
\* skipped and left as it is
C25_BackfillConditions ==
    [][engine = "complex" =>
          /\ (pc = "buff" /\ groups' # groups) =>
                LET p == groups'[gi].characters[Len(groups'[gi].characters)]
                IN  /\ groups'[gi].characters = Append(groups[gi].characters, p)
                    /\ \A h \in 1..Len(groups) : h # gi => groups'[h] = groups[h]
                    /\ raid_buff_ids(p) \cap required_buffs \cap scan_missing # {}
                    /\ player_id(p) \notin groups[gi].players_used
                    /\ p \notin used_chars /\ ~InAnyGroup(groups, p)
                    /\ Len(groups[gi].characters) < group_size
          /\ (pc = "buffs" /\ gi <= Len(groups)
                /\ Len(groups[gi].characters) >= group_size) =>
                (groups' = groups /\ pc' = "buffs" /\ gi' = gi + 1)]_vars

\* the backfill has added a buff provider to the second group after it had
\* consumed another one for the first
C25_Witness ==
    /\ engine = "complex" /\ pc = "buff" /\ gi = 2
    /\ Cardinality(used_chars) = 2
    /\ \E c \in used_chars : InSeq(c, groups[1].characters)
    /\ \E c \in used_chars : InSeq(c, groups[2].characters)

\* C26: when create_groups has returned, a character of a known tier and
\* role that is in no group is refused by every group: the group is full, or
\* holds a character of the same player, or is not the character's lock target
C26_SimpleResultMaximal ==
    (engine = "simple" /\ returned) =>
        \A c \in CharIds :
            (/\ role_group(c) \in {"main", "alt", "helper", "inactive"}
             /\ role_raid(c) \in {"tank", "healer", "rdps", "mdps"}
             /\ ~InAnyGroup(groups, c)) =>
                \A g \in 1..Len(groups) :
                    \/ Len(groups[g].characters) >= group_size
                    \/ \E d \in Range(groups[g].characters) : player_id(d) = player_id(c)
                    \/ (is_locked(c) /\ locked_to_group(c) # g)

\* an unlocked character was left out although a group has a free slot:
\* that group holds a character of its player
C26_Witness ==
    /\ engine = "simple" /\ returned /\ num_groups = 2
    /\ \E c \in CharIds : \E g \in 1..Len(groups) :
          /\ ~InAnyGroup(groups, c) /\ ~is_locked(c) /\ c \in attempted
          /\ role_raid(c) \in {"tank", "healer", "rdps", "mdps"}
          /\ Len(groups[g].characters) < group_size
          /\ \E d \in Range(groups[g].characters) : player_id(d) = player_id(c)

---------------------------------------------------------------------------
(* Rosters for the simple engine in which every character has a player of    *)
(* its own: tanks and healers of the tier main, unlocked or locked to group 1 *)

EvenSpecs == {"warrior_protection", "druid_restoration"}

EvenRosters ==
    LET recs == { [player_id |-> p, spec_id |-> s, role_group |-> "main",
                   is_locked |-> l.is_locked, locked_to_group |-> l.locked_to_group] :
                     p \in 1..(MaxChars + 1), s \in EvenSpecs, l \in ScenarioLocks }
    IN  UNION { {r \in [1..n -> recs] :
                    (\A i \in 1..n : r[i].player_id = i) /\ LocksBounded(r)} :
                  n \in 0..(MaxChars + 1) }

InitEven ==
    /\ engine = "simple"
    /\ all_characters \in EvenRosters
    /\ num_groups \in 1..MaxGroups
    /\ group_size \in 1..(MaxGroupSize + 1)
    /\ healers_per_group = 0
    /\ groups = [g \in 1..num_groups |-> EmptyGroup]
    /\ pc = "apply_locks"
    /\ InitLocals

SpecEven == InitEven /\ [][NextSimple]_vars

\* character_locks is empty and no two characters have the same player
NoLocksDistinctPlayers ==
    /\ \A c \in CharIds : ~is_locked(c)
    /\ \A c, d \in CharIds : c # d => player_id(c) # player_id(d)

\* C27: with no locks and pairwise distinct players, whenever a role bucket
\* has been distributed (and so in the result) the member counts of any two
\* groups differ by at most 1
C27_EvenGroupSizes ==
    (/\ engine = "simple" /\ NoLocksDistinctPlayers
     /\ (pc \in {"priority_group", "round_robin", "done"} \/ returned)) =>
        \A g, h \in 1..Len(groups) :
            Len(groups[g].characters) - Len(groups[h].characters) <= 1

\* three characters of three players were placed from two role buckets into
\* two groups, the second bucket starting from unequal sizes
C27_Witness ==
    /\ engine = "simple" /\ NoLocksDistinctPlayers /\ returned
    /\ num_groups = 2 /\ group_size = MaxGroupSize + 1
    /\ Len(groups[1].characters) + Len(groups[2].characters) = 4
    /\ Cardinality({c \in CharIds : role_raid(c) = "tank"}) = 1

---------------------------------------------------------------------------
(* Rosters for the complex engine whose dps provide several buffs: shamans   *)
(* (one required buff of two) and arcanists (two required buffs)             *)

BuffSpecs == {"shaman_elemental", "arcanist_spec"}

BuffRosters ==
    LET recs == {QuotaRecord(p, s, "main") : p \in 1..MaxChars, s \in BuffSpecs}
    IN  UNION { {r \in [1..n -> recs] : PlayersCanonical(r)} : n \in 1..MaxChars }

InitBuffs ==
    /\ engine = "complex"
    /\ all_characters \in BuffRosters
    /\ num_groups \in 1..MaxGroups
    /\ group_size \in 1..(MaxGroupSize + 1)
    /\ healers_per_group = 1
    /\ groups = [g \in 1..num_groups |-> EmptyGroup]
    /\ pc = "load"
    /\ InitLocals

SpecBuffs == (InitComplex \/ InitBuffs) /\ [][NextComplex]_vars

C29_FillMaximal ==
    (engine = "complex" /\ pc = "fill" /\ gi > Len(groups)) =>
        \A c \in Range(remaining_chars) :
            ~InAnyGroup(groups, c) =>
                \A g \in 1..Len(groups) :
                    Len(groups[g].characters) < group_size =>
                        \E d \in Range(groups[g].characters) : player_id(d) = player_id(c)

\* the fill added a character to a group and left another one of the same
\* player out, the group staying below target_size
C29_Witness ==
    /\ engine = "complex" /\ pc = "fill" /\ gi > Len(groups)
    /\ \E c \in Range(remaining_chars) : \E g \in 1..Len(groups) :
          /\ ~InAnyGroup(groups, c)
          /\ Len(groups[g].characters) < group_size
          /\ \E d \in used_chars : InSeq(d, groups[g].characters) /\ player_id(d) = player_id(c)

\* C30: in every group dictionary groups_to_dict has produced, by either
\* engine, tanks + healers + dps equals total_members, and total_members is the
\* length of the serialized characters list
C30_RoleCountsConsistent ==
    \A k \in 1..Len(dicts) : \A g \in 1..Len(dicts[k]) :
        /\ dicts[k][g].tanks + dicts[k][g].healers + dicts[k][g].dps
              = dicts[k][g].total_members
        /\ dicts[k][g].total_members = Len(dicts[k][g].characters)

====
